---- MODULE Spec2Model ----
(***************************************************************************)
(* Model of dgi/tx2graph/abstract_transaction_loader.py:                   *)
(* the statement classifier (crud0, crud) and the nested-transaction       *)
(* aggregator (analyze) of AbstractTransactionLoader.                       *)
(*                                                                         *)
(* Python objects are modelled with an explicit heap, because analyze      *)
(* shares one two-element list between the scope stack and the BEGIN       *)
(* operation (op['rwset'] = stack[-1]):                                    *)
(*   sets  : sequence of set objects (sets[k] is the content of object k)  *)
(*   lists : sequence of two-element lists <<ref of reads, ref of writes>> *)
(* A reference is an index in the sequence; 0 stands for "no such key".    *)
(***************************************************************************)
EXTENDS Integers, Sequences, FiniteSets, TLC

VARIABLES
    input,   \* the batch as logged (argument txs of analyze before any mutation)
    txs,     \* the batch being annotated in place
    ti,      \* index of the transaction of `for tx in txs`
    oi,      \* index of the operation of `for op in tx['transaction']`
    stack,   \* scope stack: sequence of references into lists
    lists,   \* heap of two-element lists [reads, writes]
    sets,    \* heap of set objects
    pc,      \* control position of analyze / crud
    parse,   \* the parser's result handed to crud (classifier specification)
    res,     \* the pair returned by crud (classifier specification)
    label,   \* argument label of tx2neo4j: the text, a sequence of tokens
    lab,     \* the record _consume_and_process_label returned
    xi,      \* index of the transaction of `for transaction_dict in transactions`
    calls    \* the calls made to the graph sink, in order

vars == <<input, txs, ti, oi, stack, lists, sets, pc, parse, res, label, lab, xi, calls>>

(***************************************************************************)
(* Bounds of the model.                                                    *)
(***************************************************************************)
MaxOps == 6        \* longest logged operation sequence of a one-transaction batch
MaxBatchOps == 2   \* longest logged operation sequence in a two-transaction batch
MaxNodes == 3      \* largest size of an AST handed to the classifier
MaxDropped == 2    \* most tokens missing from a serialized label
MaxLoadOps == 5    \* longest logged operation sequence of a one-transaction batch that is loaded

NoRef == 0

(***************************************************************************)
(* AST node shapes the classifier distinguishes.                           *)
(*   List  : a Python list  [head, kid, kid, ...]                          *)
(*   Dict  : a Python dict with the key ':from' (value: a list of refs)    *)
(*   Map   : a Python dict without ':from' whose first value is `first`    *)
(*   Tuple : a Python tuple (alias / join marker)                          *)
(*   Str   : a Python string                                               *)
(***************************************************************************)
Str(v) == [t |-> "str", v |-> v]
Tuple == [t |-> "tuple"]
Map(x) == [t |-> "map", first |-> x]
Dict(f) == [t |-> "dict", from |-> f]
List(h, ks) == [t |-> "list", head |-> h, kids |-> ks]

Null == <<>>
Wrapper == Str("sql")

EmptyRW == <<{}, {}>>

(***************************************************************************)
(* crud0 (lines 77-96): recursive classification of an AST node into       *)
(* <<reads, writes>>.                                                      *)
(***************************************************************************)
\* lines 86-87: the references of a from-clause; tuples are dropped, a dict
\* is replaced by its first value.
fromRefs(f) ==
    { IF f[i].t = "map" THEN f[i].first ELSE f[i] :
        i \in { j \in DOMAIN f : f[j].t # "tuple" } }

RECURSIVE crud0(_, _)
\* crud0 with the test on the statement kind inverted (ast[0] == 'select')
crud0KindInverted(ast, write) ==
    IF ast.t = "list"
    THEN << UNION { crud0(ast.kids[i], ast.head = "select")[1] : i \in DOMAIN ast.kids },
            UNION { crud0(ast.kids[i], ast.head = "select")[2] : i \in DOMAIN ast.kids } >>
    ELSE IF ast.t = "dict"
    THEN LET r == UNION { IF x.t = "list" THEN crud0(x, FALSE)[1] ELSE {x.v} :
                          x \in fromRefs(ast.from) }
         IN  IF write THEN <<{}, r>> ELSE <<r, {}>>
    ELSE EmptyRW

crud0(ast, write) ==
    IF ast.t = "list"
    THEN << UNION { crud0(ast.kids[i], ast.head # "select")[1] : i \in DOMAIN ast.kids },
            UNION { crud0(ast.kids[i], ast.head # "select")[2] : i \in DOMAIN ast.kids } >>
    ELSE IF ast.t = "dict"
    THEN LET r == UNION { IF x.t = "list" THEN crud0(x, FALSE)[1] ELSE {x.v} :
                          x \in fromRefs(ast.from) }
         IN  IF write THEN <<{}, r>> ELSE <<r, {}>>
    ELSE EmptyRW

\* crud reporting the statement itself as read when the parser returns nothing
crudOfParseUnparsedCounts(r) ==
    IF r # Null THEN crud0(r[2], FALSE) ELSE <<{"?"}, {}>>

\* lines 100-103: the part of crud after the parser has returned r.
crudOfParse(r) ==
    IF r # Null THEN crud0(r[2], FALSE) ELSE EmptyRW

(***************************************************************************)
(* The SQL parser (dgi.tx2graph.utils.sqlexp) is an external black box:    *)
(* text -> <<wrapper, AST>> or nothing.  Three statement texts are used in *)
(* the logs of the aggregator's specification.                             *)
(***************************************************************************)
SelectA == "SELECT * FROM A"
UpdateB == "update b set x = 0"
NotSql == "not sql"

\* str.lower() on the texts of the model
lower(s) == IF s = SelectA THEN "select * from a" ELSE s

sqlexp(s) ==
    CASE s = "select * from a" -> <<Wrapper, List("select", <<Dict(<<Str("a")>>)>>)>>
      [] s = UpdateB -> <<Wrapper, List("update", <<Dict(<<Str("b")>>)>>)>>
      [] OTHER -> Null

\* lines 98-103
crud(sql) == crudOfParse(sqlexp(lower(sql)))

(***************************************************************************)
(* analyze (lines 105-125).  The body of the loop over the operations is   *)
(* written as functions of the machine state                               *)
(*   m = [ops, stack, lists, sets, exc]                                    *)
(* where ops is tx['transaction'] and exc the exception raised, if any.    *)
(***************************************************************************)
Op(sql) == [sql |-> sql, rwset |-> NoRef]

Machine(ops, st, ls, ss) ==
    [ops |-> ops, stack |-> st, lists |-> ls, sets |-> ss, exc |-> "none"]

Raise(m, e) == [m EXCEPT !.exc = e]

\* prepend without the test of line 108: a Begin is put in front of every log
prependAlways(ops) == <<Op("BEGIN")>> \o ops

\* lines 108-109: a non-empty log that does not start with BEGIN gets one
prepend(ops) ==
    IF ops # <<>> /\ ops[1].sql # "BEGIN"
    THEN <<Op("BEGIN")>> \o ops
    ELSE ops

\* onBegin that pushes the frame but does not attach it to the operation
onBeginNotAttached(m, i) ==
    LET r == Len(m.sets) + 1
        l == Len(m.lists) + 1
    IN  [m EXCEPT !.sets = m.sets \o <<{}, {}>>,
                  !.lists = Append(m.lists, <<r, r + 1>>),
                  !.stack = Append(m.stack, l)]

\* lines 111-113: push a fresh [set(), set()] and attach the same list to op
onBegin(m, i) ==
    LET r == Len(m.sets) + 1
        l == Len(m.lists) + 1
    IN  [m EXCEPT !.sets = m.sets \o <<{}, {}>>,
                  !.lists = Append(m.lists, <<r, r + 1>>),
                  !.stack = Append(m.stack, l),
                  !.ops[i].rwset = l]

\* mergeUp that forgets the write set (line 117 missing)
mergeUpReadsOnly(m) ==
    LET n == Len(m.stack)
        top == m.lists[m.stack[n]]
        par == m.lists[m.stack[n - 1]]
    IN  [m EXCEPT !.sets[par[1]] = @ \cup m.sets[top[1]]]

\* lines 115-117: in-place union of the top frame's sets into the parent's
mergeUp(m) ==
    LET n == Len(m.stack)
        top == m.lists[m.stack[n]]
        par == m.lists[m.stack[n - 1]]
    IN  [m EXCEPT !.sets[par[1]] = @ \cup m.sets[top[1]],
                  !.sets[par[2]] = @ \cup m.sets[top[2]]]

\* freezeAndPop without line 120: the closed frame stays on the stack
freezeWithoutPop(m) ==
    LET n == Len(m.stack)
        l == m.stack[n]
        k == Len(m.sets)
    IN  [m EXCEPT !.sets = m.sets \o <<m.sets[m.lists[l][1]], m.sets[m.lists[l][2]]>>,
                  !.lists[l] = <<k + 1, k + 2>>]

\* lines 118-120: replace the two sets of the top list by copies, then pop
freezeAndPop(m) ==
    LET n == Len(m.stack)
        l == m.stack[n]
        k == Len(m.sets)
    IN  [m EXCEPT !.sets = m.sets \o <<m.sets[m.lists[l][1]], m.sets[m.lists[l][2]]>>,
                  !.lists[l] = <<k + 1, k + 2>>,
                  !.stack = SubSeq(m.stack, 1, n - 1)]

\* onClose guarded by `if stack:`, which passes over an unmatched close
onCloseGuarded(m, i) ==
    IF Len(m.stack) > 1 THEN freezeAndPop(mergeUp(m))
    ELSE IF m.stack = <<>> THEN m
    ELSE freezeAndPop(m)

\* onClose that treats ROLLBACK as discarding: only COMMIT merges into the parent
onCloseRollbackDiscards(m, i) ==
    IF m.stack = <<>> THEN Raise(m, "IndexError")
    ELSE IF Len(m.stack) > 1 /\ m.ops[i].sql = "COMMIT" THEN freezeAndPop(mergeUp(m))
    ELSE freezeAndPop(m)

\* lines 114-120: stack[-1] on an empty stack raises IndexError
onClose(m, i) ==
    IF Len(m.stack) > 1 THEN freezeAndPop(mergeUp(m))
    ELSE IF m.stack = <<>> THEN Raise(m, "IndexError")
    ELSE freezeAndPop(m)

\* onStatement that unions into the bottom frame (stack[0]) instead of the top
onStatementIntoRoot(m, i) ==
    LET rw == crud(m.ops[i].sql)
        n == Len(m.stack)
    IN  IF n = 0 THEN Raise(m, "IndexError")
        ELSE LET bot == m.lists[m.stack[1]]
             IN  [m EXCEPT !.sets[bot[1]] = @ \cup rw[1],
                           !.sets[bot[2]] = @ \cup rw[2]]

\* lines 121-124: classify, then union in place into the top frame
onStatement(m, i) ==
    LET rw == crud(m.ops[i].sql)
        n == Len(m.stack)
    IN  IF n = 0 THEN Raise(m, "IndexError")
        ELSE LET top == m.lists[m.stack[n]]
             IN  [m EXCEPT !.sets[top[1]] = @ \cup rw[1],
                           !.sets[top[2]] = @ \cup rw[2]]

IsBegin(op) == op.sql = "BEGIN"
IsClose(op) == op.sql \in {"COMMIT", "ROLLBACK"}
IsStatement(op) == ~IsBegin(op) /\ ~IsClose(op)

\* lines 110-124: one iteration of the loop over the operations
onOp(m, i) ==
    IF IsBegin(m.ops[i]) THEN onBegin(m, i)
    ELSE IF IsClose(m.ops[i]) THEN onClose(m, i)
    ELSE onStatement(m, i)

\* analyze on one transaction, as a function of its logged operations
RECURSIVE runOps(_, _)
runOps(m, i) ==
    IF m.exc # "none" \/ i > Len(m.ops) THEN m
    ELSE runOps(onOp(m, i), i + 1)

analyzeTx(ops) == runOps(Machine(prepend(ops), <<>>, <<>>, <<>>), 1)

(***************************************************************************)
(* _consume_and_process_label (lines 39-60).  A text is a sequence of      *)
(* tokens: the characters the substitutions and the JSON grammar look at,  *)
(* and words (runs of other characters).                                   *)
(***************************************************************************)
Quote == "\""
Newline == "\n"

\* re.sub(p, r, s) for a one-character pattern p and a replacement r
RECURSIVE sub(_, _, _)
sub(p, r, s) ==
    IF s = <<>> THEN <<>>
    ELSE (IF Head(s) = p THEN r ELSE <<Head(s)>>) \o sub(p, r, Tail(s))

\* fixLabel without the substitution of line 52 (":" -> "\":")
fixLabelKeysLeftOpen(l) ==
    sub("]", <<Quote, "]">>,
    sub("[", <<"[", Quote>>,
    sub(",", <<",", Quote>>,
    sub("{", <<"{", Quote>>,
    sub(" ", <<>>,
    sub(Newline, <<>>, l))))))

\* lines 49-55, in the order of the code
fixLabel(l) ==
    sub("]", <<Quote, "]">>,
    sub("[", <<"[", Quote>>,
    sub(",", <<",", Quote>>,
    sub(":", <<Quote, ":">>,
    sub("{", <<"{", Quote>>,
    sub(" ", <<>>,
    sub(Newline, <<>>, l)))))))

\* JSON values: a string (its tokens), an array, an object (its members in
\* order, each <<key, value>>)
JStr(x) == [t |-> "str", s |-> x]
JArr(x) == [t |-> "arr", a |-> x]
JObj(x) == [t |-> "obj", o |-> x]
NoLabel == [t |-> "none"]

Parsed(v, i) == [ok |-> TRUE, v |-> v, i |-> i]
ParseError == [ok |-> FALSE, v |-> NoLabel, i |-> 0]

\* json.loads (line 58) on the token sequence s: a string runs from a quote
\* to the next quote; a word outside a string is an error
parseString(s, i) ==
    IF i > Len(s) \/ s[i] # Quote THEN ParseError
    ELSE LET q == { j \in (i + 1)..Len(s) : s[j] = Quote }
         IN  IF q = {} THEN ParseError
             ELSE LET j == CHOOSE x \in q : \A y \in q : x <= y
                  IN  Parsed(JStr(SubSeq(s, i + 1, j - 1)), j + 1)

RECURSIVE parseValue(_, _), parseMembers(_, _, _), parseElements(_, _, _)
parseValue(s, i) ==
    IF i > Len(s) THEN ParseError
    ELSE IF s[i] = Quote THEN parseString(s, i)
    ELSE IF s[i] = "{"
    THEN IF i < Len(s) /\ s[i + 1] = "}" THEN Parsed(JObj(<<>>), i + 2)
         ELSE parseMembers(s, i + 1, <<>>)
    ELSE IF s[i] = "["
    THEN IF i < Len(s) /\ s[i + 1] = "]" THEN Parsed(JArr(<<>>), i + 2)
         ELSE parseElements(s, i + 1, <<>>)
    ELSE ParseError
parseMembers(s, i, acc) ==
    LET k == parseString(s, i)
    IN  IF ~k.ok \/ k.i > Len(s) \/ s[k.i] # ":" THEN ParseError
        ELSE LET v == parseValue(s, k.i + 1)
                 more == Append(acc, <<k.v.s, v.v>>)
             IN  IF ~v.ok \/ v.i > Len(s) THEN ParseError
                 ELSE IF s[v.i] = "," THEN parseMembers(s, v.i + 1, more)
                 ELSE IF s[v.i] = "}" THEN Parsed(JObj(more), v.i + 1)
                 ELSE ParseError
parseElements(s, i, acc) ==
    LET v == parseValue(s, i)
        more == Append(acc, v.v)
    IN  IF ~v.ok \/ v.i > Len(s) THEN ParseError
        ELSE IF s[v.i] = "," THEN parseElements(s, v.i + 1, more)
        ELSE IF s[v.i] = "]" THEN Parsed(JArr(more), v.i + 1)
        ELSE ParseError

loads(s) ==
    LET r == parseValue(s, 1)
    IN  IF r.ok /\ r.i = Len(s) + 1 THEN r ELSE ParseError

\* lines 46-60: the record, or ok = FALSE for json.JSONDecodeError
consumeAndProcessLabel(l) == loads(fixLabel(l))

(***************************************************************************)
(* tx2neo4j: what it reads from the label and the calls it makes on the    *)
(* graph-population methods.                                               *)
(***************************************************************************)
None == [t |-> "None"]
Got(v) == [ok |-> TRUE, v |-> v, exc |-> "none"]
Fail(e) == [ok |-> FALSE, v |-> None, exc |-> e]

\* v[k] for a string key k: the value of the last member named k
item(v, k) ==
    IF v.t # "obj" THEN Fail("TypeError")
    ELSE LET K == { j \in DOMAIN v.o : v.o[j][1] = <<k>> }
         IN  IF K = {} THEN Fail("KeyError")
             ELSE Got(v.o[CHOOSE j \in K : \A i \in K : i <= j][2])

\* v[0]: the first element of a list, the first character of a string
first(v) ==
    IF v.t = "arr" THEN (IF v.a = <<>> THEN Fail("IndexError") ELSE Got(v.a[1]))
    ELSE IF v.t = "obj" THEN Fail("KeyError")
    ELSE IF v.t = "str" /\ v.s # <<>> THEN Got([t |-> "char", of |-> v.s])
    ELSE IF v.t = "str" THEN Fail("IndexError")
    ELSE Fail("TypeError")

\* line 201: label['entry']['methods'][0]
entrypointOf(l) ==
    LET e == item(l, "entry")
    IN  IF ~e.ok THEN e
        ELSE LET ms == item(e.v, "methods")
             IN  IF ~ms.ok THEN ms ELSE first(ms.v)

\* lines 202-204: None without an 'action' member, else the first element of
\* the value of its first key
actionOf(l) ==
    IF l.t # "obj" THEN Fail("AttributeError")
    ELSE LET a == item(l, "action")
         IN  IF ~a.ok THEN Got(None)
             ELSE IF a.v.t # "obj" THEN Fail("AttributeError")
             ELSE IF a.v.o = <<>> THEN Fail("IndexError")
             ELSE first(item(a.v, a.v.o[1][1][1]).v)

\* lines 200-204: the parsed label, or the exception raised on the way
labelParts(l) ==
    LET p == consumeAndProcessLabel(l)
    IN  IF ~p.ok THEN Fail("JSONDecodeError")
        ELSE IF ~entrypointOf(p.v).ok THEN entrypointOf(p.v)
        ELSE IF ~actionOf(p.v).ok THEN actionOf(p.v)
        ELSE Got(p.v)

\* line 208: the two sets of the list attached to operation [0]
readWrite(o, ls, ss) == <<ss[ls[o[1].rwset][1]], ss[ls[o[1].rwset][2]]>>

\* line 210; the operation's stacktrace is not modelled, k stands for it
callgraph(txid, k, entrypoint) ==
    [fn |-> "populate_transaction_callgraph", txid |-> txid, op |-> k,
     entrypoint |-> entrypoint]

\* line 211; the operation object is named by its position k in the list
populate(lb, txid, rw, k, action) ==
    [fn |-> "populate_transaction", label |-> lb, txid |-> txid,
     read |-> rw[1], write |-> rw[2], op |-> k, action |-> action]

\* callsFrom that passes the sets of the operation itself (none: two empty sets)
RECURSIVE callsFromOwnSets(_, _, _, _, _, _)
callsFromOwnSets(tx, k, rw, lb, ls, ss) ==
    IF k >= Len(tx.transaction) THEN <<>>
    ELSE LET r == tx.transaction[k].rwset
             own == IF r = NoRef THEN <<{}, {}>> ELSE <<ss[ls[r][1]], ss[ls[r][2]]>>
         IN  <<callgraph(tx.txid, k, entrypointOf(lb).v),
               populate(lb, tx.txid, own, k, actionOf(lb).v)>>
             \o callsFromOwnSets(tx, k + 1, rw, lb, ls, ss)

\* lines 209-211: the loop over transaction[1:-1], from position k on
RECURSIVE callsFrom(_, _, _, _, _, _)
callsFrom(tx, k, rw, lb, ls, ss) ==
    IF k >= Len(tx.transaction) THEN <<>>
    ELSE <<callgraph(tx.txid, k, entrypointOf(lb).v),
           populate(lb, tx.txid, rw, k, actionOf(lb).v)>>
         \o callsFrom(tx, k + 1, rw, lb, ls, ss)

(***************************************************************************)
(* Inputs.                                                                 *)
(***************************************************************************)
OpSqls == {"BEGIN", "COMMIT", "ROLLBACK", SelectA, UpdateB, NotSql}

\* every operation sequence of length at most n
Logs(n) == UNION { [1..k -> { Op(s) : s \in OpSqls }] : k \in 0..n }

Tx(id, ops) == [txid |-> id, transaction |-> ops]

\* the batch is empty, or one transaction of at most MaxOps operations, or
\* two transactions of at most MaxBatchOps operations each
IsBatch(b) ==
    \/ b = <<>>
    \/ \E l \in Logs(MaxOps) : b = <<Tx(1, l)>>
    \/ \E l1 \in Logs(MaxBatchOps), l2 \in Logs(MaxBatchOps) : b = <<Tx(1, l1), Tx(2, l2)>>

Names == {"a", "b"}
Heads == {"select", "update"}

\* The ASTs of size n, the size being the number of lists, strings, tuples
\* and mappings without ':from' (a from-clause counts as its references):
\*   FromElems references of a from-clause, Kids children of a list.
RECURSIVE AstLists(_), AstDicts(_), FromElems(_), FromSeqs(_), Kids(_), KidSeqs(_)
FromElems(n) ==
    (IF n = 1 THEN { Str(x) : x \in Names } \cup {Tuple} ELSE {})
    \cup (IF n = 2 THEN { Map(Str(x)) : x \in Names } ELSE {})
    \cup (IF n > 2 THEN { Map(l) : l \in AstLists(n - 1) } ELSE {})
    \cup AstLists(n)
FromSeqs(n) ==
    { <<e>> : e \in FromElems(n) }
    \cup UNION { { <<e>> \o f : e \in FromElems(i), f \in FromSeqs(n - i) } : i \in 1..(n - 1) }
AstDicts(n) == { Dict(f) : f \in FromSeqs(n) }
Kids(n) ==
    AstDicts(n) \cup AstLists(n)
    \cup (IF n = 1 THEN {Str("*")} ELSE {})
    \cup (IF n = 2 THEN {Map(Str("a"))} ELSE {})
KidSeqs(n) ==
    IF n = 0 THEN {<<>>}
    ELSE UNION { { <<k>> \o ks : k \in Kids(i), ks \in KidSeqs(n - i) } : i \in 1..n }
AstLists(n) ==
    IF n < 1 THEN {} ELSE { List(h, ks) : h \in Heads, ks \in KidSeqs(n - 1) }

\* three larger ASTs: a list and a from-clause among the children of one
\* list, a subquery between plain references, an aliased subquery two deep
SampleAsts ==
    { List("update", <<Dict(<<Str("a")>>), List("select", <<Dict(<<Str("b")>>)>>)>>),
      List("select", <<Dict(<<Str("a"), List("update", <<Dict(<<Str("b")>>)>>), Tuple>>)>>),
      List("select", <<List("update",
                            <<Dict(<<Map(List("select", <<Dict(<<Str("a")>>)>>))>>)>>)>>) }

Asts ==
    {Str("*")} \cup SampleAsts
    \cup UNION { AstLists(n) \cup AstDicts(n) : n \in 1..MaxNodes }

ParserResults == {Null} \cup { <<Wrapper, a>> : a \in Asts }

\* Label texts: the flow-style serialization of a record ("{k: v, k: v}",
\* "[x, y]", with or without the blank after ":" and ","), and every text
\* that lacks at most MaxDropped tokens of one.
Word(w) == JStr(<<w>>)

RECURSIVE flow(_, _), flowItems(_, _, _)
flow(v, sp) ==
    IF v.t = "str" THEN v.s
    ELSE IF v.t = "arr" THEN <<"[">> \o flowItems(v.a, sp, FALSE) \o <<"]">>
    ELSE <<"{">> \o flowItems(v.o, sp, TRUE) \o <<"}">>
flowItems(xs, sp, keyed) ==
    IF xs = <<>> THEN <<>>
    ELSE (IF keyed THEN Head(xs)[1] \o <<":">> \o sp \o flow(Head(xs)[2], sp)
          ELSE flow(Head(xs), sp))
         \o (IF Len(xs) > 1 THEN <<",">> \o sp ELSE <<>>)
         \o flowItems(Tail(xs), sp, keyed)

EntryRecord(ms) == JObj(<< <<<<"entry">>, JObj(<< <<<<"methods">>, JArr(ms)>> >>)>> >>)
WithAction(r) ==
    JObj(r.o \o << <<<<"action">>, JObj(<< <<<<"click">>, JArr(<<Word("x")>>)>> >>)>> >>)

LabelRecords ==
    LET E == { EntryRecord(<<Word("foo")>>), EntryRecord(<<Word("foo"), Word("bar")>>) }
    IN  E \cup { WithAction(r) : r \in E }

Blanks == { <<>>, <<" ">> }

RECURSIVE dropAt(_, _, _)
dropAt(s, D, i) ==
    IF i > Len(s) THEN <<>>
    ELSE (IF i \in D THEN <<>> ELSE <<s[i]>>) \o dropAt(s, D, i + 1)

RECURSIVE UpTo(_, _)
UpTo(S, k) ==
    IF k = 0 THEN {{}}
    ELSE LET P == UpTo(S, k - 1) IN P \cup { D \cup {x} : D \in P, x \in S }

IsLabelText(l) ==
    \E r \in LabelRecords, sp \in Blanks :
        \E D \in UpTo(DOMAIN flow(r, sp), MaxDropped) : l = dropAt(flow(r, sp), D, 1)

\* batches and labels handed to analyze and then to tx2neo4j
LoadSqls == {"BEGIN", "COMMIT", "ROLLBACK", SelectA, UpdateB}

LoadLogs(n) == UNION { [1..k -> { Op(q) : q \in LoadSqls }] : k \in 0..n }

IsLoadBatch(b) ==
    \/ b = <<>>
    \/ \E l \in LoadLogs(MaxLoadOps) : b = <<Tx(1, l)>>
    \/ \E l1 \in LoadLogs(MaxBatchOps), l2 \in LoadLogs(MaxBatchOps) :
          b = <<Tx(1, l1), Tx(2, l2)>>

LoadLabels ==
    { flow(EntryRecord(<<Word("foo")>>), <<>>),
      flow(WithAction(EntryRecord(<<Word("foo")>>)), <<" ">>),
      flow(JObj(<< <<<<"other">>, JArr(<<Word("x")>>)>> >>), <<>>),
      <<"{", "entry", ":", "methods", ":", "[", "foo", "]", "}">> }

(***************************************************************************)
(* The aggregator as a state machine.                                      *)
(***************************************************************************)
Init ==
    /\ IsBatch(input)
    /\ txs = input
    /\ ti = 1
    /\ oi = 0
    /\ stack = <<>>
    /\ lists = <<>>
    /\ sets = <<>>
    /\ pc = "for_tx"
    /\ parse = Null
    /\ res = EmptyRW
    /\ label = <<>>
    /\ lab = NoLabel
    /\ xi = 0
    /\ calls = <<>>

ops == txs[ti].transaction
cur == Machine(ops, stack, lists, sets)

\* the effect of one loop iteration on the program state
Apply(m) ==
    /\ txs' = [txs EXCEPT ![ti].transaction = m.ops]
    /\ stack' = m.stack
    /\ lists' = m.lists
    /\ sets' = m.sets
    /\ pc' = IF m.exc = "none" THEN "for_op" ELSE m.exc
    /\ oi' = IF m.exc = "none" THEN oi + 1 ELSE oi
    /\ UNCHANGED <<input, ti, parse, res, label, lab, xi, calls>>

\* StartTx with the stack created once for the whole batch instead of per transaction
StartTxSharedStack ==
    /\ pc = "for_tx"
    /\ ti <= Len(txs)
    /\ txs' = [txs EXCEPT ![ti].transaction = prepend(@)]
    /\ oi' = 1
    /\ pc' = "for_op"
    /\ UNCHANGED <<input, ti, stack, lists, sets, parse, res, label, lab, xi, calls>>

\* lines 106-109
StartTx ==
    /\ pc = "for_tx"
    /\ ti <= Len(txs)
    /\ stack' = <<>>
    /\ txs' = [txs EXCEPT ![ti].transaction = prepend(@)]
    /\ oi' = 1
    /\ pc' = "for_op"
    /\ UNCHANGED <<input, ti, lists, sets, parse, res, label, lab, xi, calls>>

\* lines 111-113
OpBegin ==
    /\ pc = "for_op"
    /\ oi <= Len(ops)
    /\ IsBegin(ops[oi])
    /\ Apply(onBegin(cur, oi))

\* lines 114-120
OpClose ==
    /\ pc = "for_op"
    /\ oi <= Len(ops)
    /\ IsClose(ops[oi])
    /\ Apply(onClose(cur, oi))

\* lines 121-124
OpStatement ==
    /\ pc = "for_op"
    /\ oi <= Len(ops)
    /\ IsStatement(ops[oi])
    /\ Apply(onStatement(cur, oi))

\* line 110 exhausted: back to line 106
EndTx ==
    /\ pc = "for_op"
    /\ oi > Len(ops)
    /\ ti' = ti + 1
    /\ pc' = "for_tx"
    /\ UNCHANGED <<input, txs, oi, stack, lists, sets, parse, res, label, lab, xi, calls>>

\* line 125
Return ==
    /\ pc = "for_tx"
    /\ ti > Len(txs)
    /\ pc' = "done"
    /\ UNCHANGED <<input, txs, ti, oi, stack, lists, sets, parse, res, label, lab, xi, calls>>

Next == StartTx \/ OpBegin \/ OpClose \/ OpStatement \/ EndTx \/ Return

Spec == Init /\ [][Next]_vars

(***************************************************************************)
(* The classifier as a state machine: one call of crud whose parser        *)
(* result is drawn from the bounded set of ASTs.                           *)
(***************************************************************************)
InitCrud ==
    /\ parse \in ParserResults
    /\ res = EmptyRW
    /\ pc = "crud"
    /\ input = <<>>
    /\ txs = <<>>
    /\ ti = 1
    /\ oi = 0
    /\ stack = <<>>
    /\ lists = <<>>
    /\ sets = <<>>
    /\ label = <<>>
    /\ lab = NoLabel
    /\ xi = 0
    /\ calls = <<>>

\* lines 100-103
Classify ==
    /\ pc = "crud"
    /\ res' = crudOfParse(parse)
    /\ pc' = "crud_done"
    /\ UNCHANGED <<input, txs, ti, oi, stack, lists, sets, parse, label, lab, xi, calls>>

NextCrud == Classify

SpecCrud == InitCrud /\ [][NextCrud]_vars

(***************************************************************************)
(* The label normalizer as a state machine: one call of                    *)
(* _consume_and_process_label on a label text.                             *)
(***************************************************************************)
InitLabel ==
    /\ IsLabelText(label)
    /\ lab = NoLabel
    /\ pc = "label"
    /\ input = <<>>
    /\ txs = <<>>
    /\ ti = 1
    /\ oi = 0
    /\ stack = <<>>
    /\ lists = <<>>
    /\ sets = <<>>
    /\ parse = Null
    /\ res = EmptyRW
    /\ xi = 0
    /\ calls = <<>>

\* lines 46-60
NormalizeLabel ==
    /\ pc = "label"
    /\ LET r == consumeAndProcessLabel(label)
       IN  /\ lab' = r.v
           /\ pc' = IF r.ok THEN "label_done" ELSE "JSONDecodeError"
    /\ UNCHANGED <<input, txs, ti, oi, stack, lists, sets, parse, res, label, xi, calls>>

NextLabel == NormalizeLabel

SpecLabel == InitLabel /\ [][NextLabel]_vars

(***************************************************************************)
(* load_transactions for one entry: analyze, then tx2neo4j on its result.  *)
(***************************************************************************)
InitLoad ==
    /\ IsLoadBatch(input)
    /\ txs = input
    /\ ti = 1
    /\ oi = 0
    /\ stack = <<>>
    /\ lists = <<>>
    /\ sets = <<>>
    /\ pc = "for_tx"
    /\ parse = Null
    /\ res = EmptyRW
    /\ label = <<>>
    /\ lab = NoLabel
    /\ xi = 0
    /\ calls = <<>>

\* Tx2Call that parses the label before it looks at the batch
Tx2CallParsesFirst ==
    /\ pc = "done"
    /\ \E l \in LoadLabels :
          /\ label' = l
          /\ lab' = IF consumeAndProcessLabel(l).ok THEN consumeAndProcessLabel(l).v ELSE lab
          /\ pc' = IF ~labelParts(l).ok THEN labelParts(l).exc
                   ELSE IF Len(txs) = 0 THEN "returned" ELSE "sink"
          /\ xi' = IF Len(txs) = 0 THEN xi ELSE 1
    /\ UNCHANGED <<input, txs, ti, oi, stack, lists, sets, parse, res, calls>>

\* lines 195-204: the call with the analyzed batch and some label text
Tx2Call ==
    /\ pc = "done"
    /\ \E l \in LoadLabels :
          /\ label' = l
          /\ IF Len(txs) = 0
             THEN /\ pc' = "returned"
                  /\ UNCHANGED <<lab, xi>>
             ELSE /\ lab' = IF consumeAndProcessLabel(l).ok
                            THEN consumeAndProcessLabel(l).v ELSE lab
                  /\ pc' = IF labelParts(l).ok THEN "sink" ELSE labelParts(l).exc
                  /\ xi' = 1
    /\ UNCHANGED <<input, txs, ti, oi, stack, lists, sets, parse, res, calls>>

\* lines 206-211: one iteration of the loop over the transactions
Tx2Emit ==
    /\ pc = "sink"
    /\ xi <= Len(txs)
    /\ LET tx == txs[xi]
       IN  IF tx.transaction = <<>>
           THEN /\ pc' = "IndexError"
                /\ UNCHANGED <<xi, calls>>
           ELSE IF tx.transaction[1].rwset = NoRef
           THEN /\ pc' = "KeyError"
                /\ UNCHANGED <<xi, calls>>
           ELSE /\ calls' = calls \o callsFrom(tx, 2, readWrite(tx.transaction, lists, sets),
                                               lab, lists, sets)
                /\ xi' = xi + 1
                /\ pc' = pc
    /\ UNCHANGED <<input, txs, ti, oi, stack, lists, sets, parse, res, label, lab>>

\* the loop of line 206 is over: tx2neo4j returns
Tx2Return ==
    /\ pc = "sink"
    /\ xi > Len(txs)
    /\ pc' = "returned"
    /\ UNCHANGED <<input, txs, ti, oi, stack, lists, sets, parse, res, label, lab, xi, calls>>

NextLoad == Next \/ Tx2Call \/ Tx2Emit \/ Tx2Return

SpecLoad == InitLoad /\ [][NextLoad]_vars

(***************************************************************************)
(* Vocabulary of the properties.                                           *)
(***************************************************************************)
\* the pair of sets an operation carries in the current heap; <<>> if none
RW(op) ==
    IF op.rwset = NoRef THEN <<>>
    ELSE <<sets[lists[op.rwset][1]], sets[lists[op.rwset][2]]>>

\* the operations of transaction t processed so far
Processed(t, j) == t < ti \/ (t = ti /\ pc # "for_tx" /\ j < oi)

\* index of the Commit/Rollback closing the scope opened at i; 0 if none
RECURSIVE MatchFrom(_, _, _)
MatchFrom(o, j, d) ==
    IF j > Len(o) THEN 0
    ELSE IF IsBegin(o[j]) THEN MatchFrom(o, j + 1, d + 1)
    ELSE IF IsClose(o[j]) THEN (IF d = 1 THEN j ELSE MatchFrom(o, j + 1, d - 1))
    ELSE MatchFrom(o, j + 1, d)
MatchOf(o, i) == MatchFrom(o, i + 1, 1)

\* number of scopes open just before operation j
OpenBefore(o, j) ==
    Cardinality({ k \in 1..(j - 1) : IsBegin(o[k]) })
    - Cardinality({ k \in 1..(j - 1) : IsClose(o[k]) })

\* the union of the classified sets of the statements strictly between i and j
StatementsBetween(o, i, j) ==
    << UNION { crud(o[k].sql)[1] : k \in { x \in (i + 1)..(j - 1) : IsStatement(o[x]) } },
       UNION { crud(o[k].sql)[2] : k \in { x \in (i + 1)..(j - 1) : IsStatement(o[x]) } } >>

Scenario ==
    <<Op("BEGIN"), Op(SelectA), Op("BEGIN"), Op(UpdateB), Op("COMMIT"), Op("COMMIT")>>

(***************************************************************************)
(* C1: once the Commit/Rollback matching a Begin has been processed, the   *)
(* set attached to that Begin is exactly the union of the classified sets  *)
(* of the statements between the two, at any nesting depth.                *)
(***************************************************************************)
C1_ScopeIsUnionOfItsStatements ==
    \A t \in DOMAIN txs :
        LET o == txs[t].transaction
        IN  \A i \in DOMAIN o :
                (IsBegin(o[i]) /\ MatchOf(o, i) # 0 /\ Processed(t, MatchOf(o, i)))
                => RW(o[i]) = StatementsBetween(o, i, MatchOf(o, i))

\* the scenario of the specification: outer reads = {a}, writes = {b}
C1_Witness ==
    /\ pc = "done"
    /\ input = <<Tx(1, Scenario)>>
    /\ RW(txs[1].transaction[1]) = <<{"a"}, {"b"}>>
    /\ RW(txs[1].transaction[3]) = <<{}, {"b"}>>

(***************************************************************************)
(* C2: once a parent scope is closed, its sets contain the sets of every   *)
(* scope opened and closed inside it.                                      *)
(***************************************************************************)
NestedPairs(o) ==
    { p \in (DOMAIN o) \X (DOMAIN o) :
        /\ IsBegin(o[p[1]]) /\ IsBegin(o[p[2]])
        /\ MatchOf(o, p[1]) # 0 /\ MatchOf(o, p[2]) # 0
        /\ p[1] < p[2] /\ MatchOf(o, p[2]) < MatchOf(o, p[1]) }

C2_ParentContainsChildren ==
    \A t \in DOMAIN txs :
        LET o == txs[t].transaction
        IN  \A p \in NestedPairs(o) :
                Processed(t, MatchOf(o, p[1]))
                => /\ RW(o[p[2]])[1] \subseteq RW(o[p[1]])[1]
                   /\ RW(o[p[2]])[2] \subseteq RW(o[p[1]])[2]

\* a closed parent holding the table written in a child closed by Rollback
C2_Witness ==
    /\ pc = "done"
    /\ \E t \in DOMAIN txs :
          LET o == txs[t].transaction
          IN  \E p \in NestedPairs(o) :
                /\ o[MatchOf(o, p[2])].sql = "ROLLBACK"
                /\ RW(o[p[2]])[2] = {"b"}
                /\ RW(o[p[1]])[2] = {"b"}

(***************************************************************************)
(* C3: a log that does not start with Begin ends, operation list and sets, *)
(* as the same log with a Begin put in front of it.                        *)
(***************************************************************************)
\* operations with the sets they carry, references resolved
Annotated(o, ls, ss) ==
    [i \in DOMAIN o |->
        [sql |-> o[i].sql,
         rw |-> IF o[i].rwset = NoRef THEN <<>>
                ELSE <<ss[ls[o[i].rwset][1]], ss[ls[o[i].rwset][2]]>>]]

AnnotatedRun(m) == Annotated(m.ops, m.lists, m.sets)

C3_SameAsWithBeginPrepended ==
    pc = "done" =>
        \A t \in DOMAIN input :
            LET l == input[t].transaction
            IN  (l = <<>> \/ l[1].sql # "BEGIN")
                => Annotated(txs[t].transaction, lists, sets)
                     = AnnotatedRun(analyzeTx(<<Op("BEGIN")>> \o l))

(***************************************************************************)
(* C4: after analyze every transaction starts with a Begin that carries a  *)
(* set, whatever was logged, the empty log included.                       *)
(***************************************************************************)
C4_RootScopeAlwaysExists ==
    pc = "done" =>
        \A t \in DOMAIN txs :
            LET o == txs[t].transaction
            IN  o # <<>> /\ IsBegin(o[1]) /\ o[1].rwset # NoRef

(***************************************************************************)
(* C5: analyze never leaves a transaction normally with a scope still on   *)
(* the stack.                                                              *)
(***************************************************************************)
C5_NoOpenScopeLeftSilently ==
    pc \in {"for_tx", "done"} => stack = <<>>

(***************************************************************************)
(* C6: a Commit/Rollback met while no scope is open is never passed over:  *)
(* analyze stops on it with an exception.                                  *)
(***************************************************************************)
C6_UnmatchedCloseStopsAnalyze ==
    \A t \in DOMAIN txs :
        LET o == txs[t].transaction
        IN  \A j \in DOMAIN o :
                (IsClose(o[j]) /\ OpenBefore(o, j) = 0) => ~Processed(t, j)

\* the second Commit of [Begin, Commit, Commit] raises
C6_Witness ==
    /\ input = <<Tx(1, <<Op("BEGIN"), Op("COMMIT"), Op("COMMIT")>>)>>
    /\ pc = "IndexError"
    /\ oi = 3

(***************************************************************************)
(* C7: a statement processed while the stack is empty does not make        *)
(* analyze fail.                                                           *)
(***************************************************************************)
C7_StatementOutsideScopeDoesNotCrash ==
    ~(pc = "IndexError" /\ IsStatement(txs[ti].transaction[oi]))

(***************************************************************************)
(* C8 as stated: under a root list that is not a select, every table of    *)
(* every from-clause beneath it, at any depth, is returned as written and  *)
(* not as read; under a select root, as read and not as written.           *)
(***************************************************************************)
\* the names a from-clause gives directly: plain ones and aliased ones
PlainNames(f) ==
    { f[i].v : i \in { j \in DOMAIN f : f[j].t = "str" } }
    \cup { f[i].first.v : i \in { j \in DOMAIN f : f[j].t = "map" /\ f[j].first.t = "str" } }

\* the subqueries of a from-clause, aliased or not
Subqueries(f) ==
    { f[i] : i \in { j \in DOMAIN f : f[j].t = "list" } }
    \cup { f[i].first : i \in { j \in DOMAIN f : f[j].t = "map" /\ f[j].first.t = "list" } }

\* every table of every from-clause at or beneath a node
RECURSIVE AllFromTables(_)
AllFromTables(ast) ==
    IF ast.t = "list" THEN UNION { AllFromTables(ast.kids[i]) : i \in DOMAIN ast.kids }
    ELSE IF ast.t = "dict"
    THEN PlainNames(ast.from) \cup UNION { AllFromTables(q) : q \in Subqueries(ast.from) }
    ELSE {}

Classified == pc = "crud_done" /\ parse # Null /\ parse[2].t = "list"

RECURSIVE DirectFrom(_)
DirectFrom(ast) ==
    IF ast.t = "list"
    THEN { <<ast.head, ast.kids[i]>> : i \in { j \in DOMAIN ast.kids : ast.kids[j].t = "dict" } }
         \cup UNION { DirectFrom(ast.kids[i]) : i \in DOMAIN ast.kids }
    ELSE {}

AtUnparsableStatement ==
    /\ pc = "for_op"
    /\ oi <= Len(ops)
    /\ IsStatement(ops[oi])
    /\ sqlexp(lower(ops[oi].sql)) = Null
    /\ stack # <<>>

C9_UnparsableStatementIsNeutral ==
    [][AtUnparsableStatement =>
        /\ pc' = "for_op"
        /\ oi' = oi + 1
        /\ txs' = txs
        /\ stack' = stack
        /\ [k \in DOMAIN lists |-> <<sets'[lists'[k][1]], sets'[lists'[k][2]]>>]
             = [k \in DOMAIN lists |-> <<sets[lists[k][1]], sets[lists[k][2]]>>]]_vars

\* a batch whose first transaction holds an unparsable statement is analyzed
\* to the end: the second transaction has got its sets
C9_Witness ==
    /\ pc = "done"
    /\ Len(input) = 2
    /\ input[1].transaction = <<Op(NotSql), Op("COMMIT")>>
    /\ input[2].transaction = <<Op(SelectA), Op("COMMIT")>>
    /\ RW(txs[1].transaction[1]) = <<{}, {}>>
    /\ RW(txs[2].transaction[1]) = <<{"a"}, {}>>

ClaimedLabel == <<"{", "entry", ":", "methods", ":", "[", "foo", "]", "}">>
FooRecord == EntryRecord(<<Word("foo")>>)

C16_ClaimedLabelGivesRecord ==
    (pc # "label" /\ label = ClaimedLabel) => (pc = "label_done" /\ lab = FooRecord)

(***************************************************************************)
(* C16 amended: the text {entry:{methods:[foo]}}, the inner mapping in its *)
(* own braces, with or without blanks, is normalized to the record         *)
(* {"entry": {"methods": ["foo"]}}; for the text {entry:methods:[foo]} the *)
(* substitutions give {"entry":methods":["foo"]} and the parse fails.      *)
(***************************************************************************)
C16_BracedLabelGivesRecord ==
    /\ (pc # "label" /\ \E sp \in Blanks : label = flow(FooRecord, sp))
          => (pc = "label_done" /\ lab = FooRecord)
    /\ (pc # "label" /\ label = ClaimedLabel)
          => /\ pc = "JSONDecodeError"
             /\ fixLabel(label) = <<"{", Quote, "entry", Quote, ":", "methods", Quote, ":",
                                    "[", Quote, "foo", Quote, "]", "}">>

C16_Witness ==
    /\ pc = "label_done"
    /\ label = <<"{", "entry", ":", "{", "methods", ":", "[", "foo", "]", "}", "}">>
    /\ lab = FooRecord

(***************************************************************************)
(* C18: every table of a subquery in a from-clause is folded into the      *)
(* result of the from-bearing node, on the side of the node's context,     *)
(* whatever the kind and the nesting of the subquery; no table of a        *)
(* from-clause beneath the classified statement is missing from the        *)
(* returned sets.                                                          *)
(***************************************************************************)
\* <<write context, from-bearing node>> as crud0 meets them from the root
RECURSIVE FromNodes(_, _)
FromNodes(ast, write) ==
    IF ast.t = "list"
    THEN UNION { FromNodes(ast.kids[i], ast.head # "select") : i \in DOMAIN ast.kids }
    ELSE IF ast.t = "dict"
    THEN {<<write, ast>>} \cup UNION { FromNodes(q, FALSE) : q \in Subqueries(ast.from) }
    ELSE {}

C18_SubqueryTablesAreFolded ==
    (pc = "crud_done" /\ parse # Null) =>
        /\ \A n \in FromNodes(parse[2], FALSE) :
              \A q \in Subqueries(n[2].from) :
                  AllFromTables(q) \subseteq crud0(n[2], n[1])[IF n[1] THEN 2 ELSE 1]
        /\ AllFromTables(parse[2]) \subseteq res[1] \cup res[2]

(***************************************************************************)
(* C17: once the Commit/Rollback of a scope has been processed, no step    *)
(* changes the sets attached to its Begin, and neither its list nor its    *)
(* sets are shared with a frame still on the stack.                        *)
(***************************************************************************)
ClosedScopes ==
    { c \in { <<t, i>> : t \in DOMAIN txs, i \in 1..(MaxOps + 2) } :
        /\ c[2] \in DOMAIN txs[c[1]].transaction
        /\ IsBegin(txs[c[1]].transaction[c[2]])
        /\ MatchOf(txs[c[1]].transaction, c[2]) # 0
        /\ Processed(c[1], MatchOf(txs[c[1]].transaction, c[2])) }

C17_ClosedScopeIsFrozen ==
    [][\A c \in ClosedScopes :
          LET l == txs[c[1]].transaction[c[2]].rwset
          IN  /\ txs'[c[1]].transaction[c[2]].rwset = l
              /\ sets'[lists'[l][1]] = sets[lists[l][1]]
              /\ sets'[lists'[l][2]] = sets[lists[l][2]]
              /\ \A k \in DOMAIN stack :
                    /\ stack[k] # l
                    /\ {lists[stack[k]][1], lists[stack[k]][2]}
                         \cap {lists[l][1], lists[l][2]} = {}]_vars

\* a child closed before a statement of its parent: the child kept its sets
C17_Witness ==
    /\ pc = "done"
    /\ input = <<Tx(1, <<Op("BEGIN"), Op("BEGIN"), Op(UpdateB), Op("COMMIT"),
                         Op(SelectA), Op("ROLLBACK")>>)>>
    /\ RW(txs[1].transaction[2]) = <<{}, {"b"}>>
    /\ RW(txs[1].transaction[1]) = <<{"a"}, {"b"}>>

(***************************************************************************)
(* C13: Commit and Rollback are interchangeable: the log with any one      *)
(* close replaced by the other kind is analyzed without failure and every  *)
(* operation of it carries the same sets as in the log as given.           *)
(***************************************************************************)
otherClose(sql) == IF sql = "COMMIT" THEN "ROLLBACK" ELSE "COMMIT"

swapClose(o, i) == [o EXCEPT ![i].sql = otherClose(o[i].sql)]

rwOnly(a) == [i \in DOMAIN a |-> a[i].rw]

C13_CloseKindDoesNotMatter ==
    pc = "done" =>
        \A t \in DOMAIN input :
            \A i \in DOMAIN input[t].transaction :
                IsClose(input[t].transaction[i]) =>
                    LET m == analyzeTx(swapClose(input[t].transaction, i))
                    IN  /\ m.exc = "none"
                        /\ rwOnly(AnnotatedRun(m))
                             = rwOnly(Annotated(txs[t].transaction, lists, sets))

\* a child closed by Rollback still reaches its parent, as with Commit
C13_Witness ==
    /\ pc = "done"
    /\ input = <<Tx(1, <<Op("BEGIN"), Op(SelectA), Op("BEGIN"), Op(UpdateB),
                         Op("ROLLBACK"), Op("COMMIT")>>)>>
    /\ RW(txs[1].transaction[1]) = <<{"a"}, {"b"}>>
    /\ RW(txs[1].transaction[3]) = <<{}, {"b"}>>

(***************************************************************************)
(* C15: transactions are aggregated independently: in every state, each    *)
(* transaction the loop has finished carries exactly the sets it gets when *)
(* analyzed alone, whatever else is in the batch and in whatever position. *)
(***************************************************************************)
C15_TransactionsAreIndependent ==
    \A t \in DOMAIN txs :
        (t < ti /\ pc \in {"for_tx", "for_op", "done", "IndexError"}) =>
            Annotated(txs[t].transaction, lists, sets)
              = AnnotatedRun(analyzeTx(input[t].transaction))

\* the first transaction left two scopes open; the second one closed its own
\* root and did not touch them
C15_Witness ==
    /\ pc = "done"
    /\ input = <<Tx(1, <<Op("BEGIN"), Op("BEGIN")>>), Tx(2, <<Op(UpdateB), Op("COMMIT")>>)>>
    /\ RW(txs[1].transaction[2]) = EmptyRW
    /\ RW(txs[2].transaction[1]) = <<{}, {"b"}>>

(***************************************************************************)
(* C19: analyze is idempotent on its own output: a second run over the     *)
(* annotated transactions prepends no Begin, fails nowhere, keeps every    *)
(* operation list and attaches the same sets to every operation.           *)
(***************************************************************************)
\* the second run of lines 106-123 over transaction t, on the heap as it is
analyzeAgain(t) ==
    runOps(Machine(prepend(txs[t].transaction), <<>>, lists, sets), 1)

C19_AnalyzeIsIdempotent ==
    pc = "done" =>
        \A t \in DOMAIN txs :
            /\ prepend(txs[t].transaction) = txs[t].transaction
            /\ analyzeAgain(t).exc = "none"
            /\ AnnotatedRun(analyzeAgain(t))
                 = Annotated(txs[t].transaction, lists, sets)

\* the first run synthesized the root Begin; the second one finds it in place
C19_Witness ==
    /\ pc = "done"
    /\ input = <<Tx(1, <<Op(SelectA), Op("BEGIN"), Op(UpdateB), Op("COMMIT"), Op("COMMIT")>>)>>
    /\ Len(txs[1].transaction) = 6
    /\ AnnotatedRun(analyzeAgain(1))[1].rw = <<{"a"}, {"b"}>>
    /\ RW(txs[1].transaction[1]) = <<{"a"}, {"b"}>>

(***************************************************************************)
(* C14: an empty batch is a no-op: analyze leaves it empty, and tx2neo4j   *)
(* returns without a call on the sink and without parsing the label,       *)
(* whatever the label text is.                                             *)
(***************************************************************************)
C14_EmptyBatchIsNoOp ==
    input = <<>> =>
        /\ txs = <<>>
        /\ calls = <<>>
        /\ lab = NoLabel
        /\ pc \in {"for_tx", "done", "returned"}

\* returned from tx2neo4j with a label that json.loads would reject
C14_Witness ==
    /\ input = <<>>
    /\ pc = "returned"
    /\ ~consumeAndProcessLabel(label).ok
    /\ calls = <<>>

(***************************************************************************)
(* C11: when tx2neo4j has returned, the calls on the sink are, transaction *)
(* by transaction and operation by operation, one callgraph call followed  *)
(* by one populate_transaction call for every operation except the root    *)
(* Begin and a final Commit/Rollback.                                      *)
(***************************************************************************)
RECURSIVE expectedOps(_, _)
expectedOps(tx, k) ==
    IF k > Len(tx.transaction) THEN <<>>
    ELSE (IF k = Len(tx.transaction) /\ IsClose(tx.transaction[k]) THEN <<>>
          ELSE << <<"populate_transaction_callgraph", tx.txid, k>>,
                  <<"populate_transaction", tx.txid, k>> >>)
         \o expectedOps(tx, k + 1)

RECURSIVE expectedCalls(_)
expectedCalls(t) ==
    IF t > Len(txs) THEN <<>> ELSE expectedOps(txs[t], 2) \o expectedCalls(t + 1)

C11_TwoCallsPerInnerOperation ==
    pc = "returned" =>
        [i \in DOMAIN calls |-> <<calls[i].fn, calls[i].txid, calls[i].op>>]
          = expectedCalls(1)

(***************************************************************************)
(* C12: every populate_transaction call passes the sets attached to the    *)
(* root Begin of its transaction, the same pair for all calls of the       *)
(* transaction; when the last operation closes the root scope that pair is *)
(* the union over all statements of the transaction, nested ones included. *)
(***************************************************************************)
PopulateCalls == { i \in DOMAIN calls : calls[i].fn = "populate_transaction" }

====
